---- MODULE Spec2Model ----
(***************************************************************************)
(* A model of the AES block cipher of src/aes/mod.ts: the Rijndael key     *)
(* schedule, the round transforms and their inverses, and the ECB and CBC  *)
(* whole-message operations of class AES.  A Uint8Array is a sequence of   *)
(* numbers in 0..255; index k of the source is index k + 1 here.           *)
(***************************************************************************)
EXTENDS Integers, Sequences, FiniteSets, TLC

VARIABLES
  args,   \* the key, mode and IV the caller constructs its instances from
  inst,   \* the AES instances: slot 1 the cipher, slot 2 a second instance
  ctor,   \* the outcome of the last constructor call
  call,   \* the last encrypt or decrypt call: its input and what it returned
  prev,   \* the call before it, where the caller's two-message history is kept
  calls,  \* how many encrypt and decrypt calls were made
  fb,     \* the feedback-mode (CFB, OFB) instances and their registers
  gf      \* the last field-arithmetic operation applied, with its xtime calls

vars == << args, inst, ctor, call, prev, calls, fb, gf >>

(* enum Mode *)
ECB == 1
CBC == 2

(* Bounds of the explored inputs. *)
MaxCalls == 2
MaxLen == 32

(* The ^ operator on two 4-bit operands, row a + 1, column b + 1. *)
XorNibble ==
  << <<0, 1, 2, 3, 4, 5, 6, 7, 8, 9, 10, 11, 12, 13, 14, 15>>,
     <<1, 0, 3, 2, 5, 4, 7, 6, 9, 8, 11, 10, 13, 12, 15, 14>>,
     <<2, 3, 0, 1, 6, 7, 4, 5, 10, 11, 8, 9, 14, 15, 12, 13>>,
     <<3, 2, 1, 0, 7, 6, 5, 4, 11, 10, 9, 8, 15, 14, 13, 12>>,
     <<4, 5, 6, 7, 0, 1, 2, 3, 12, 13, 14, 15, 8, 9, 10, 11>>,
     <<5, 4, 7, 6, 1, 0, 3, 2, 13, 12, 15, 14, 9, 8, 11, 10>>,
     <<6, 7, 4, 5, 2, 3, 0, 1, 14, 15, 12, 13, 10, 11, 8, 9>>,
     <<7, 6, 5, 4, 3, 2, 1, 0, 15, 14, 13, 12, 11, 10, 9, 8>>,
     <<8, 9, 10, 11, 12, 13, 14, 15, 0, 1, 2, 3, 4, 5, 6, 7>>,
     <<9, 8, 11, 10, 13, 12, 15, 14, 1, 0, 3, 2, 5, 4, 7, 6>>,
     <<10, 11, 8, 9, 14, 15, 12, 13, 2, 3, 0, 1, 6, 7, 4, 5>>,
     <<11, 10, 9, 8, 15, 14, 13, 12, 3, 2, 1, 0, 7, 6, 5, 4>>,
     <<12, 13, 14, 15, 8, 9, 10, 11, 4, 5, 6, 7, 0, 1, 2, 3>>,
     <<13, 12, 15, 14, 9, 8, 11, 10, 5, 4, 7, 6, 1, 0, 3, 2>>,
     <<14, 15, 12, 13, 10, 11, 8, 9, 6, 7, 4, 5, 2, 3, 0, 1>>,
     <<15, 14, 13, 12, 11, 10, 9, 8, 7, 6, 5, 4, 3, 2, 1, 0>> >>

RCON ==
  << 141, 1, 2, 4, 8, 16, 32, 64, 128, 27, 54 >>

SBOX ==
  << 99, 124, 119, 123, 242, 107, 111, 197, 48, 1, 103, 43, 254, 215, 171, 118,
     202, 130, 201, 125, 250, 89, 71, 240, 173, 212, 162, 175, 156, 164, 114, 192,
     183, 253, 147, 38, 54, 63, 247, 204, 52, 165, 229, 241, 113, 216, 49, 21,
     4, 199, 35, 195, 24, 150, 5, 154, 7, 18, 128, 226, 235, 39, 178, 117,
     9, 131, 44, 26, 27, 110, 90, 160, 82, 59, 214, 179, 41, 227, 47, 132,
     83, 209, 0, 237, 32, 252, 177, 91, 106, 203, 190, 57, 74, 76, 88, 207,
     208, 239, 170, 251, 67, 77, 51, 133, 69, 249, 2, 127, 80, 60, 159, 168,
     81, 163, 64, 143, 146, 157, 56, 245, 188, 182, 218, 33, 16, 255, 243, 210,
     205, 12, 19, 236, 95, 151, 68, 23, 196, 167, 126, 61, 100, 93, 25, 115,
     96, 129, 79, 220, 34, 42, 144, 136, 70, 238, 184, 20, 222, 94, 11, 219,
     224, 50, 58, 10, 73, 6, 36, 92, 194, 211, 172, 98, 145, 149, 228, 121,
     231, 200, 55, 109, 141, 213, 78, 169, 108, 86, 244, 234, 101, 122, 174, 8,
     186, 120, 37, 46, 28, 166, 180, 198, 232, 221, 116, 31, 75, 189, 139, 138,
     112, 62, 181, 102, 72, 3, 246, 14, 97, 53, 87, 185, 134, 193, 29, 158,
     225, 248, 152, 17, 105, 217, 142, 148, 155, 30, 135, 233, 206, 85, 40, 223,
     140, 161, 137, 13, 191, 230, 66, 104, 65, 153, 45, 15, 176, 84, 187, 22 >>

RSBOX ==
  << 82, 9, 106, 213, 48, 54, 165, 56, 191, 64, 163, 158, 129, 243, 215, 251,
     124, 227, 57, 130, 155, 47, 255, 135, 52, 142, 67, 68, 196, 222, 233, 203,
     84, 123, 148, 50, 166, 194, 35, 61, 238, 76, 149, 11, 66, 250, 195, 78,
     8, 46, 161, 102, 40, 217, 36, 178, 118, 91, 162, 73, 109, 139, 209, 37,
     114, 248, 246, 100, 134, 104, 152, 22, 212, 164, 92, 204, 93, 101, 182, 146,
     108, 112, 72, 80, 253, 237, 185, 218, 94, 21, 70, 87, 167, 141, 157, 132,
     144, 216, 171, 0, 140, 188, 211, 10, 247, 228, 88, 5, 184, 179, 69, 6,
     208, 44, 30, 143, 202, 63, 15, 2, 193, 175, 189, 3, 1, 19, 138, 107,
     58, 145, 17, 65, 79, 103, 220, 234, 151, 242, 207, 206, 240, 180, 230, 115,
     150, 172, 116, 34, 231, 173, 53, 133, 226, 249, 55, 232, 28, 117, 223, 110,
     71, 241, 26, 113, 29, 41, 197, 137, 111, 183, 98, 14, 170, 24, 190, 27,
     252, 86, 62, 75, 198, 210, 121, 32, 154, 219, 192, 254, 120, 205, 90, 244,
     31, 221, 168, 51, 136, 7, 199, 49, 177, 18, 16, 89, 39, 128, 236, 95,
     96, 81, 127, 169, 25, 181, 74, 13, 45, 229, 122, 159, 147, 201, 156, 239,
     160, 224, 59, 77, 174, 42, 245, 176, 200, 235, 187, 60, 131, 83, 153, 97,
     23, 43, 4, 126, 186, 119, 214, 38, 225, 105, 20, 99, 85, 33, 12, 125 >>

(* a ^ b of the source for operands below 2^12: JavaScript computes it on  *)
(* 32-bit integers, and no operand of this program exceeds 11 bits.        *)
Xor(a, b) ==
  XorNibble[(a \div 256) + 1][(b \div 256) + 1] * 256
    + XorNibble[((a \div 16) % 16) + 1][((b \div 16) % 16) + 1] * 16
    + XorNibble[(a % 16) + 1][(b % 16) + 1]

(* A store into a Uint8Array element keeps the low eight bits. *)
ToByte(x) == x % 256

(* xtime with the reduction constant 0x1d instead of 0x1b. *)
xtimeOtherPolynomial(x) == IF (x \div 128) % 2 = 1 THEN Xor(2 * x, 29) ELSE 2 * x

(* function xtime: (x & 0x80) ? ((x << 1) ^ 0x1b) : (x << 1), with no mask *)
(* on the result.                                                          *)
xtime(x) == IF (x \div 128) % 2 = 1 THEN Xor(2 * x, 27) ELSE 2 * x

(* The sixteen elements of f as a tuple. *)
Block(f) ==
  << f[1], f[2], f[3], f[4], f[5], f[6], f[7], f[8],
     f[9], f[10], f[11], f[12], f[13], f[14], f[15], f[16] >>

(* AES.rotWord on the word at byte offset off (0-based) of ks. *)
rotWord(ks, off) ==
  [ks EXCEPT ![off + 1] = ks[off + 2], ![off + 2] = ks[off + 3],
             ![off + 3] = ks[off + 4], ![off + 4] = ks[off + 1]]

(* AES.subWord on the word at byte offset off (0-based) of ks. *)
subWord(ks, off) ==
  [ks EXCEPT ![off + 1] = SBOX[ks[off + 1] + 1], ![off + 2] = SBOX[ks[off + 2] + 1],
             ![off + 3] = SBOX[ks[off + 3] + 1], ![off + 4] = SBOX[ks[off + 4] + 1]]

(* One iteration of the loop of AES.keyExpansion, for word index i. *)
keyExpansionStep(ks, i, nk) ==
  LET prevOffset == (i - nk) * 4
      offset == i * 4
      copied == [ks EXCEPT ![offset + 1] = ks[offset - 3], ![offset + 2] = ks[offset - 2],
                           ![offset + 3] = ks[offset - 1], ![offset + 4] = ks[offset]]
      rotated == rotWord(copied, offset)
      subbed == subWord(rotated, offset)
      t == IF i % nk = 0
             THEN [subbed EXCEPT ![offset + 1] = Xor(subbed[offset + 1], RCON[(i \div nk) + 1])]
             ELSE IF nk > 6 /\ i % nk = 4
                    THEN subWord(copied, offset)
                    ELSE copied
  IN  [t EXCEPT ![offset + 1] = Xor(t[offset + 1], t[prevOffset + 1]),
                ![offset + 2] = Xor(t[offset + 2], t[prevOffset + 2]),
                ![offset + 3] = Xor(t[offset + 3], t[prevOffset + 3]),
                ![offset + 4] = Xor(t[offset + 4], t[prevOffset + 4])]

(* The loop of AES.keyExpansion; v holds the loop's variables ks and i. *)
RECURSIVE keyExpansionLoop(_, _, _)
keyExpansionLoop(v, nk, nr) ==
  IF v.i < 4 * (nr + 1)
    THEN keyExpansionLoop([ks |-> keyExpansionStep(v.ks, v.i, nk), i |-> v.i + 1], nk, nr)
    ELSE v.ks

(* AES.keyExpansion: a zero-filled array of 16 * (nr + 1) bytes, the key   *)
(* copied to its start, then one word per iteration.                       *)
keyExpansion(key) ==
  LET nk == Len(key) \div 4
      nr == nk + 6
      ks == SubSeq([i \in 1..(16 * (nr + 1)) |-> IF i <= Len(key) THEN key[i] ELSE 0],
                   1, 16 * (nr + 1))
  IN  keyExpansionLoop([ks |-> ks, i |-> nk], nk, nr)

(* AES.addRoundKey *)
addRoundKey(key, state, round) ==
  Block([i \in 1..16 |-> Xor(state[i], key[round * 16 + i])])

(* AES.subBytes and AES.invSubBytes *)
subBytes(state) == Block([i \in 1..16 |-> SBOX[state[i] + 1]])

invSubBytes(state) == Block([i \in 1..16 |-> RSBOX[state[i] + 1]])

(* AES.shiftRows: the element each position receives. *)
shiftRows(state) ==
  << state[1], state[6], state[11], state[16], state[5], state[10], state[15], state[4],
     state[9], state[14], state[3], state[8], state[13], state[2], state[7], state[12] >>

(* AES.invShiftRows *)
invShiftRows(state) ==
  << state[1], state[14], state[11], state[8], state[5], state[2], state[15], state[12],
     state[9], state[6], state[3], state[16], state[13], state[10], state[7], state[4] >>

(* One iteration of the loop of AES.mixColumns on the column a, b, c, d.   *)
mixColumn(a, b, c, d) ==
  LET e == Xor(Xor(Xor(a, b), c), d)
  IN  << ToByte(Xor(a, Xor(e, xtime(Xor(a, b))))),
         ToByte(Xor(b, Xor(e, xtime(Xor(b, c))))),
         ToByte(Xor(c, Xor(e, xtime(Xor(c, d))))),
         ToByte(Xor(d, Xor(e, xtime(Xor(d, a))))) >>

mixColumns(state) ==
  mixColumn(state[1], state[2], state[3], state[4])
    \o mixColumn(state[5], state[6], state[7], state[8])
    \o mixColumn(state[9], state[10], state[11], state[12])
    \o mixColumn(state[13], state[14], state[15], state[16])

(* One iteration of the loop of AES.invMixColumns. *)
invMixColumn(a, b, c, d) ==
  LET e == Xor(Xor(Xor(a, b), c), d)
      z == xtime(e)
      x == Xor(e, xtime(xtime(Xor(Xor(z, a), c))))
      y == Xor(e, xtime(xtime(Xor(Xor(z, b), d))))
  IN  << ToByte(Xor(a, Xor(x, xtime(Xor(a, b))))),
         ToByte(Xor(b, Xor(y, xtime(Xor(b, c))))),
         ToByte(Xor(c, Xor(x, xtime(Xor(c, d))))),
         ToByte(Xor(d, Xor(y, xtime(Xor(d, a))))) >>

invMixColumns(state) ==
  invMixColumn(state[1], state[2], state[3], state[4])
    \o invMixColumn(state[5], state[6], state[7], state[8])
    \o invMixColumn(state[9], state[10], state[11], state[12])
    \o invMixColumn(state[13], state[14], state[15], state[16])

(* The loop of AES.encryptBlock; v holds the loop's variables state and i. *)
RECURSIVE encryptRounds(_, _, _)
encryptRounds(key, v, nr) ==
  IF v.i < nr
    THEN encryptRounds(key,
                       [state |-> addRoundKey(key, mixColumns(shiftRows(subBytes(v.state))), v.i),
                        i |-> v.i + 1],
                       nr)
    ELSE v.state

(* AES.encryptBlock; key is the expanded key (this.key). *)
encryptBlock(key, data) ==
  LET nr == Len(key) \div 16 - 1
      middle == encryptRounds(key, [state |-> addRoundKey(key, data, 0), i |-> 1], nr)
  IN  addRoundKey(key, shiftRows(subBytes(middle)), nr)

(* The loop of AES.decryptBlock; v holds the loop's variables state and i. *)
RECURSIVE decryptRounds(_, _)
decryptRounds(key, v) ==
  IF v.i > 0
    THEN decryptRounds(key,
                       [state |-> invMixColumns(addRoundKey(key,
                                     invSubBytes(invShiftRows(v.state)), v.i)),
                        i |-> v.i - 1])
    ELSE v.state

(* AES.decryptBlock *)
decryptBlock(key, data) ==
  LET nr == Len(key) \div 16 - 1
      middle == decryptRounds(key, [state |-> addRoundKey(key, data, nr), i |-> nr - 1])
  IN  addRoundKey(key, invSubBytes(invShiftRows(middle)), 0)


(***************************************************************************)
(* Padding (utils/padding.ts, PKCS7) and whole-message operations.         *)
(***************************************************************************)

(* The block size class AES passes to pad and unpad. *)
BlockSize == 16

Repeat(n, x) == SubSeq([i \in 1..n |-> x], 1, n)

(* pad(data, Padding.PKCS7, blockSize) *)
pad(data, blockSize) ==
  LET m == blockSize - (Len(data) % blockSize)
      n == IF m = 0 THEN blockSize ELSE m
  IN  data \o Repeat(n, n)

(* unpad(data, Padding.PKCS7, blockSize) of a non-empty buffer: the data   *)
(* without its padding, or a padding error.                                *)
unpad(data, blockSize) ==
  LET v == data[Len(data)]
  IN  IF v = 0 \/ v > blockSize \/ v > Len(data)
           \/ \E k \in (Len(data) - v + 1)..Len(data) : data[k] # v
        THEN [error |-> "Padding", data |-> << >>]
        ELSE [error |-> "none", data |-> SubSeq(data, 1, Len(data) - v)]

(* data.subarray(i, i + 16) *)
subarray(data, i) == SubSeq(data, i + 1, i + 16)

(* encrypted.set(block, i) *)
setBlock(buf, block, i) == SubSeq(buf, 1, i) \o block \o SubSeq(buf, i + 17, Len(buf))

(* block[j] ^= prev[j] for j = 0..15 *)
xorBlock(block, p) == Block([j \in 1..16 |-> Xor(block[j], p[j])])

(* The ECB loop with each block after the first XORed with the ciphertext  *)
(* block before it.                                                        *)
RECURSIVE ecbEncryptLoopChained(_, _, _)
ecbEncryptLoopChained(key, data, v) ==
  IF v.i < Len(data)
    THEN LET block == IF v.i = 0
                        THEN subarray(data, v.i)
                        ELSE xorBlock(subarray(data, v.i), subarray(v.encrypted, v.i - 16))
         IN  ecbEncryptLoopChained(key, data,
               [i |-> v.i + 16,
                encrypted |-> setBlock(v.encrypted, encryptBlock(key, block), v.i)])
    ELSE v.encrypted

(* The ECB loop of AES.encrypt; v holds i and encrypted. *)
RECURSIVE ecbEncryptLoop(_, _, _)
ecbEncryptLoop(key, data, v) ==
  IF v.i < Len(data)
    THEN ecbEncryptLoop(key, data,
           [i |-> v.i + 16,
            encrypted |-> setBlock(v.encrypted, encryptBlock(key, subarray(data, v.i)), v.i)])
    ELSE v.encrypted

(* The CBC loop without its prev = enc: every block chained from the IV. *)
RECURSIVE cbcEncryptLoopKeepsPrev(_, _, _)
cbcEncryptLoopKeepsPrev(key, data, v) ==
  IF v.i < Len(data)
    THEN LET enc == encryptBlock(key, xorBlock(subarray(data, v.i), v.prev))
         IN  cbcEncryptLoopKeepsPrev(key, data,
               [i |-> v.i + 16, prev |-> v.prev, encrypted |-> setBlock(v.encrypted, enc, v.i)])
    ELSE v.encrypted

(* The CBC loop of AES.encrypt; v holds i, prev and encrypted. *)
RECURSIVE cbcEncryptLoop(_, _, _)
cbcEncryptLoop(key, data, v) ==
  IF v.i < Len(data)
    THEN LET enc == encryptBlock(key, xorBlock(subarray(data, v.i), v.prev))
         IN  cbcEncryptLoop(key, data,
               [i |-> v.i + 16, prev |-> enc, encrypted |-> setBlock(v.encrypted, enc, v.i)])
    ELSE v.encrypted

(* The mode dispatch of AES.encrypt on the padded data. *)
encryptPadded(self, data) ==
  LET encrypted == Repeat(Len(data), 0)
  IN  IF self.mode = ECB
        THEN [error |-> "none",
              output |-> ecbEncryptLoop(self.key, data, [i |-> 0, encrypted |-> encrypted])]
        ELSE IF self.mode = CBC
          THEN [error |-> "none",
                output |-> cbcEncryptLoop(self.key, data,
                             [i |-> 0, prev |-> self.iv.bytes, encrypted |-> encrypted])]
          ELSE [error |-> "UnsupportedMode", output |-> << >>]

(* encrypt padding only an input that is not block-aligned already. *)
encryptPadsUnaligned(self, input) ==
  encryptPadded(self, IF Len(input) % BlockSize = 0 /\ Len(input) > 0
                        THEN input
                        ELSE pad(input, BlockSize))

(* AES.encrypt on the instance self: the ciphertext, or the error thrown.  *)
encrypt(self, input) == encryptPadded(self, pad(input, BlockSize))

(* The ECB loop of AES.decrypt. *)
RECURSIVE ecbDecryptLoop(_, _, _)
ecbDecryptLoop(key, data, v) ==
  IF v.i < Len(data)
    THEN ecbDecryptLoop(key, data,
           [i |-> v.i + 16,
            decrypted |-> setBlock(v.decrypted, decryptBlock(key, subarray(data, v.i)), v.i)])
    ELSE v.decrypted

(* The CBC decryption loop with prev set to the decrypted block instead of *)
(* the ciphertext block.                                                   *)
RECURSIVE cbcDecryptLoopChainsPlain(_, _, _)
cbcDecryptLoopChainsPlain(key, data, v) ==
  IF v.i < Len(data)
    THEN LET block == subarray(data, v.i)
             enc == xorBlock(decryptBlock(key, block), v.prev)
         IN  cbcDecryptLoopChainsPlain(key, data,
               [i |-> v.i + 16, prev |-> enc, decrypted |-> setBlock(v.decrypted, enc, v.i)])
    ELSE v.decrypted

(* The CBC loop of AES.decrypt; v holds i, prev and decrypted. *)
RECURSIVE cbcDecryptLoop(_, _, _)
cbcDecryptLoop(key, data, v) ==
  IF v.i < Len(data)
    THEN LET block == subarray(data, v.i)
             enc == xorBlock(decryptBlock(key, block), v.prev)
         IN  cbcDecryptLoop(key, data,
               [i |-> v.i + 16, prev |-> block, decrypted |-> setBlock(v.decrypted, enc, v.i)])
    ELSE v.decrypted

(* AES.decrypt past its length check: the mode dispatch, the loops and    *)
(* unpad.                                                                  *)
decryptAligned(self, data) ==
  IF self.mode \notin {ECB, CBC}
    THEN [error |-> "UnsupportedMode", output |-> << >>, blocks |-> 0]
    ELSE LET zero == Repeat(Len(data), 0)
             decrypted == IF self.mode = ECB
                            THEN ecbDecryptLoop(self.key, data, [i |-> 0, decrypted |-> zero])
                            ELSE cbcDecryptLoop(self.key, data,
                                   [i |-> 0, prev |-> self.iv.bytes, decrypted |-> zero])
             u == unpad(decrypted, BlockSize)
         IN  [error |-> u.error, output |-> u.data, blocks |-> Len(data) \div 16]

(* decrypt with the length check after the whole blocks were decrypted. *)
decryptChecksLengthLast(self, data) ==
  IF Len(data) % 16 # 0
    THEN [error |-> "InputLength", output |-> << >>,
          blocks |-> decryptAligned(self, SubSeq(data, 1, 16 * (Len(data) \div 16))).blocks]
    ELSE decryptAligned(self, data)

(* AES.decrypt on the instance self: the plaintext or the error thrown,    *)
(* and how many blocks went through decryptBlock before it returned.       *)
decrypt(self, data) ==
  IF Len(data) % 16 # 0
    THEN [error |-> "InputLength", output |-> << >>, blocks |-> 0]
    ELSE decryptAligned(self, data)

(* The constructor accepting every key of 16 to 32 bytes. *)
constructorErrorKeyRange(key, mode, iv) ==
  IF mode = CBC /\ ~iv.set
    THEN "IvNotSet"
    ELSE IF mode = CBC /\ Len(iv.bytes) # 16
      THEN "IvLength"
      ELSE IF Len(key) < 16 \/ Len(key) > 32
        THEN "KeyLength"
        ELSE "none"

(* The constructor checking only that an IV is given, not its length. *)
constructorErrorIvAnyLength(key, mode, iv) ==
  IF mode = CBC /\ ~iv.set
    THEN "IvNotSet"
    ELSE IF Len(key) \notin {16, 24, 32}
      THEN "KeyLength"
      ELSE "none"

(* The constructor's checks, in its order: the error thrown, or "none".    *)
constructorError(key, mode, iv) ==
  IF mode = CBC /\ ~iv.set
    THEN "IvNotSet"
    ELSE IF mode = CBC /\ Len(iv.bytes) # 16
      THEN "IvLength"
      ELSE IF Len(key) \notin {16, 24, 32}
        THEN "KeyLength"
        ELSE "none"

(***************************************************************************)
(* The callers' inputs.                                                    *)
(***************************************************************************)

Counting(n) == SubSeq([i \in 1..n |-> i], 1, n)

(* Bytes 1..16 repeated, as the tests' plaintext: equal blocks. *)
Message(n) == SubSeq([i \in 1..n |-> ((i - 1) % 16) + 1], 1, n)

KeyLengths == {0, 16, 17, 24, 32}

NoIV == [set |-> FALSE, bytes |-> << >>]

IVs == {NoIV, [set |-> TRUE, bytes |-> Counting(16)], [set |-> TRUE, bytes |-> Counting(15)]}

Modes == {ECB, CBC}

Plaintexts == {Message(n) : n \in {m \in 0..MaxLen : m % 16 \in {0, 1}}}

NoInstance == [live |-> FALSE, mode |-> ECB, iv |-> NoIV, key |-> << >>]

(* A call's record.  blocks counts the blocks put through decryptBlock.    *)
(* plain is the plaintext behind the buffer handed in: the input of an     *)
(* encrypt call, and for a decrypt call the input of the encrypt call the  *)
(* caller took its ciphertext from; intact says that the buffer is that    *)
(* call's output, byte for byte.                                           *)
NoCall ==
  [op |-> "none", on |-> 0, input |-> << >>, output |-> << >>, error |-> "none",
   blocks |-> 0, plain |-> << >>, intact |-> FALSE]

NoCtor == [on |-> 0, error |-> "none"]

NoGf == [op |-> "none", input |-> << >>, output |-> << >>, xtimes |-> << >>]

NoFb == [live |-> FALSE, mode |-> "none", key |-> << >>, prev |-> << >>]

Idle ==
  /\ inst = [i \in 1..2 |-> NoInstance]
  /\ ctor = NoCtor
  /\ call = NoCall
  /\ prev = NoCall
  /\ calls = 0
  /\ fb = [i \in 1..2 |-> NoFb]
  /\ gf = NoGf

Init ==
  /\ args \in [key : {Counting(n) : n \in KeyLengths}, mode : Modes, iv : IVs]
  /\ Idle

(* new AES(key, {mode, iv}) into slot i. *)
Construct(i) ==
  /\ ~inst[i].live
  /\ LET e == constructorError(args.key, args.mode, args.iv)
     IN  /\ ctor' = [on |-> i, error |-> e]
         /\ inst' = IF e = "none"
                      THEN [inst EXCEPT ![i] = [live |-> TRUE, mode |-> args.mode,
                                                iv |-> args.iv, key |-> keyExpansion(args.key)]]
                      ELSE inst
  /\ UNCHANGED << args, call, calls, fb, gf >>

(* encrypt keeping the last ciphertext block of a CBC call in this.iv, as   *)
(* a register the next call would start from.                              *)
EncryptKeepsRegister(i, p) ==
  /\ inst[i].live
  /\ calls < MaxCalls
  /\ LET r == encrypt(inst[i], p)
     IN  /\ call' = [op |-> "encrypt", on |-> i, input |-> p, output |-> r.output,
                     error |-> r.error, blocks |-> 0, plain |-> p, intact |-> TRUE]
         /\ inst' = IF inst[i].mode = CBC
                      THEN [inst EXCEPT ![i].iv.bytes =
                                          SubSeq(r.output, Len(r.output) - 15, Len(r.output))]
                      ELSE inst
  /\ calls' = calls + 1
  /\ UNCHANGED << args, ctor, fb, gf >>

(* inst[i].encrypt(p): no field of the instance is assigned. *)
Encrypt(i, p) ==
  /\ inst[i].live
  /\ calls < MaxCalls
  /\ LET r == encrypt(inst[i], p)
     IN  call' = [op |-> "encrypt", on |-> i, input |-> p, output |-> r.output,
                  error |-> r.error, blocks |-> 0, plain |-> p, intact |-> TRUE]
  /\ calls' = calls + 1
  /\ UNCHANGED << args, inst, ctor, fb, gf >>

(* inst[j].decrypt(c): no field of the instance is assigned. *)
Decrypt(j, c) ==
  /\ inst[j].live
  /\ calls < MaxCalls
  /\ LET r == decrypt(inst[j], c)
     IN  call' = [op |-> "decrypt", on |-> j, input |-> c, output |-> r.output,
                  error |-> r.error, blocks |-> r.blocks, plain |-> call.plain,
                  intact |-> (call.op = "encrypt" /\ c = call.output)]
  /\ calls' = calls + 1
  /\ UNCHANGED << args, inst, ctor, fb, gf >>

(* What a caller hands to decrypt after an encrypt call: the ciphertext,   *)
(* the ciphertext with one more byte, or without its last block.           *)
Ciphertexts ==
  IF call.op = "encrypt" /\ call.error = "none"
    THEN LET c == call.output
         IN  {c, c \o << 0 >>, SubSeq(c, 1, Len(c) - 16)} \ {<< >>}
    ELSE {}

(* Construction of either instance, encryption on the first, decryption on *)
(* either of what the first returned.                                      *)
Next ==
  \/ \E i \in 1..2 : Construct(i) /\ UNCHANGED prev
  \/ \E p \in Plaintexts : Encrypt(1, p) /\ UNCHANGED prev
  \/ \E j \in 1..2 : \E c \in Ciphertexts : Decrypt(j, c) /\ UNCHANGED prev

Spec == Init /\ [][Next]_vars

(* One instance used for message after message, the call before the last   *)
(* kept in prev.                                                           *)
InitChain ==
  /\ args \in [key : {Counting(n) : n \in KeyLengths \cap {16, 24, 32}}, mode : Modes,
               iv : {v \in IVs : v.set /\ Len(v.bytes) = 16}]
  /\ Idle

NextChain ==
  \/ Construct(1) /\ UNCHANGED prev
  \/ \E p \in Plaintexts : Encrypt(1, p) /\ prev' = call
  \/ call.op = "encrypt" /\ Decrypt(1, call.output) /\ prev' = call

SpecChain == InitChain /\ [][NextChain]_vars


(***************************************************************************)
(* The feedback modes (CFB, OFB) over the same block cipher.  Their mode   *)
(* objects keep a feedback register prev, set from the IV at construction. *)
(***************************************************************************)

FbModes == {"CFB", "OFB"}

(* Construction of a feedback-mode object: the IV is required and must be  *)
(* a block long; the key must have an AES length.                          *)
fbConstructorError(key, iv) ==
  IF ~iv.set
    THEN "IvNotSet"
    ELSE IF Len(iv.bytes) # 16
      THEN "IvLength"
      ELSE IF Len(key) \notin {16, 24, 32}
        THEN "KeyLength"
        ELSE "none"

(* A segment of at most a block XORed with the keystream's prefix. *)
xorSegment(seg, keystream) ==
  SubSeq([j \in 1..Len(seg) |-> Xor(seg[j], keystream[j])], 1, Len(seg))

(* The segment of data that starts at offset i. *)
segment(data, i) == SubSeq(data, i + 1, IF i + 16 < Len(data) THEN i + 16 ELSE Len(data))

(* CFB feeding back its output, the plaintext when it decrypts. *)
RECURSIVE cfbLoopFeedsOutput(_, _, _, _)
cfbLoopFeedsOutput(key, data, decrypting, v) ==
  IF v.i < Len(data)
    THEN LET seg == segment(data, v.i)
             out == xorSegment(seg, encryptBlock(key, v.prev))
         IN  cfbLoopFeedsOutput(key, data, decrypting,
               [i |-> v.i + 16, prev |-> out, output |-> v.output \o out])
    ELSE v

(* CFB: keystream := encryptBlock(prev); output := input XOR keystream;    *)
(* prev := the ciphertext segment, in both directions.  v holds i, prev    *)
(* and output.                                                             *)
RECURSIVE cfbLoop(_, _, _, _)
cfbLoop(key, data, decrypting, v) ==
  IF v.i < Len(data)
    THEN LET seg == segment(data, v.i)
             out == xorSegment(seg, encryptBlock(key, v.prev))
         IN  cfbLoop(key, data, decrypting,
               [i |-> v.i + 16, prev |-> IF decrypting THEN seg ELSE out,
                output |-> v.output \o out])
    ELSE v

(* OFB: keystream := encryptBlock(prev); output := input XOR keystream;    *)
(* prev := keystream.                                                      *)
RECURSIVE ofbLoop(_, _, _)
ofbLoop(key, data, v) ==
  IF v.i < Len(data)
    THEN LET keystream == encryptBlock(key, v.prev)
         IN  ofbLoop(key, data,
               [i |-> v.i + 16, prev |-> keystream,
                output |-> v.output \o xorSegment(segment(data, v.i), keystream)])
    ELSE v

(* encrypt or decrypt on the feedback-mode object self: the output and the *)
(* register the call leaves.                                               *)
fbCrypt(self, data, decrypting) ==
  IF self.mode = "CFB"
    THEN cfbLoop(self.key, data, decrypting, [i |-> 0, prev |-> self.prev, output |-> << >>])
    ELSE ofbLoop(self.key, data, [i |-> 0, prev |-> self.prev, output |-> << >>])

InitFeedback ==
  /\ args \in [key : {Counting(n) : n \in KeyLengths}, mode : FbModes, iv : IVs]
  /\ Idle

FbConstruct(i) ==
  /\ ~fb[i].live
  /\ LET e == fbConstructorError(args.key, args.iv)
     IN  /\ ctor' = [on |-> i, error |-> e]
         /\ fb' = IF e = "none"
                    THEN [fb EXCEPT ![i] = [live |-> TRUE, mode |-> args.mode,
                                            key |-> keyExpansion(args.key),
                                            prev |-> args.iv.bytes]]
                    ELSE fb
  /\ UNCHANGED << args, inst, call, prev, calls, gf >>

(* A call on a feedback-mode object whose register holds a whole block;    *)
(* fresh says that the register is still the IV, here and in the call the  *)
(* buffer came from.                                                       *)
FbEncrypt(i, p) ==
  /\ fb[i].live /\ Len(fb[i].prev) = 16
  /\ calls < MaxCalls
  /\ LET r == fbCrypt(fb[i], p, FALSE)
     IN  /\ call' = [op |-> "encrypt", on |-> i, input |-> p, output |-> r.output,
                     error |-> "none", blocks |-> 0, plain |-> p, intact |-> TRUE,
                     fresh |-> (fb[i].prev = args.iv.bytes)]
         /\ fb' = [fb EXCEPT ![i].prev = r.prev]
  /\ calls' = calls + 1
  /\ UNCHANGED << args, inst, ctor, prev, gf >>

FbDecrypt(j, c) ==
  /\ fb[j].live /\ Len(fb[j].prev) = 16
  /\ calls < MaxCalls
  /\ LET r == fbCrypt(fb[j], c, TRUE)
     IN  /\ call' = [op |-> "decrypt", on |-> j, input |-> c, output |-> r.output,
                     error |-> "none", blocks |-> 0, plain |-> call.plain,
                     intact |-> (call.op = "encrypt" /\ c = call.output),
                     fresh |-> (call.fresh /\ fb[j].prev = args.iv.bytes)]
         /\ fb' = [fb EXCEPT ![j].prev = r.prev]
  /\ calls' = calls + 1
  /\ UNCHANGED << args, inst, ctor, prev, gf >>

NextFeedback ==
  \/ \E i \in 1..2 : FbConstruct(i)
  \/ \E p \in Plaintexts : FbEncrypt(1, p)
  \/ \E j \in 1..2 : call.op = "encrypt" /\ FbDecrypt(j, call.output)

SpecFeedback == InitFeedback /\ [][NextFeedback]_vars

(***************************************************************************)
(* The field arithmetic on its own: the input is drawn at the start, and   *)
(* xtime is applied to a byte, or mixColumns or invMixColumns to a column, *)
(* with the xtime calls the transform makes.                               *)
(***************************************************************************)

(* The arguments of the xtime calls of one iteration of AES.mixColumns.    *)
mixColumnXtimes(a, b, c, d) == << Xor(a, b), Xor(b, c), Xor(c, d), Xor(d, a) >>

(* The arguments of the xtime calls of one iteration of AES.invMixColumns, *)
(* in the order the calls are made.                                        *)
invMixColumnXtimes(a, b, c, d) ==
  LET e == Xor(Xor(Xor(a, b), c), d)
      z == xtime(e)
  IN  << e,
         Xor(Xor(z, a), c), xtime(Xor(Xor(z, a), c)),
         Xor(Xor(z, b), d), xtime(Xor(Xor(z, b), d)),
         Xor(a, b), Xor(b, c), Xor(c, d), Xor(d, a) >>

(* Each argument with what xtime returns for it. *)
XtimeCalls(xs) == [k \in 1..Len(xs) |-> [arg |-> xs[k], ret |-> xtime(xs[k])]]

ColumnBytes == {0, 1, 127, 128, 255}

Columns == {<< a, b, c, d >> : a \in ColumnBytes, b \in ColumnBytes,
                               c \in ColumnBytes, d \in ColumnBytes}

InitXtime ==
  /\ args = [key |-> << >>, mode |-> ECB, iv |-> NoIV]
  /\ inst = [i \in 1..2 |-> NoInstance]
  /\ ctor = NoCtor
  /\ call = NoCall
  /\ prev = NoCall
  /\ calls = 0
  /\ fb = [i \in 1..2 |-> NoFb]
  /\ gf \in {[op |-> "none", input |-> in, output |-> << >>, xtimes |-> << >>] :
              in \in {<< x >> : x \in 0..255} \cup Columns}

Xtime(x) ==
  /\ gf.op = "none" /\ gf.input = << x >>
  /\ gf' = [op |-> "xtime", input |-> << x >>, output |-> << xtime(x) >>,
            xtimes |-> XtimeCalls(<< x >>)]
  /\ UNCHANGED << args, inst, ctor, call, prev, calls, fb >>

MixColumns(col) ==
  /\ gf.op = "none" /\ gf.input = col
  /\ gf' = [op |-> "mixColumns", input |-> col,
            output |-> mixColumn(col[1], col[2], col[3], col[4]),
            xtimes |-> XtimeCalls(mixColumnXtimes(col[1], col[2], col[3], col[4]))]
  /\ UNCHANGED << args, inst, ctor, call, prev, calls, fb >>

InvMixColumns(col) ==
  /\ gf.op = "none" /\ gf.input = col
  /\ gf' = [op |-> "invMixColumns", input |-> col,
            output |-> invMixColumn(col[1], col[2], col[3], col[4]),
            xtimes |-> XtimeCalls(invMixColumnXtimes(col[1], col[2], col[3], col[4]))]
  /\ UNCHANGED << args, inst, ctor, call, prev, calls, fb >>

NextXtime ==
  \/ \E x \in 0..255 : Xtime(x)
  \/ \E col \in Columns : MixColumns(col)
  \/ \E col \in Columns : InvMixColumns(col)

SpecXtime == InitXtime /\ [][NextXtime]_vars

(***************************************************************************)
(* Properties.                                                             *)
(***************************************************************************)

(* The 16-byte blocks of a buffer whose length is a multiple of 16. *)
Blocks(data) == [k \in 1..(Len(data) \div 16) |-> SubSeq(data, 16 * (k - 1) + 1, 16 * k)]

LastBlock(data) == SubSeq(data, Len(data) - 15, Len(data))

ValidIV(iv) == iv.set /\ Len(iv.bytes) = 16

(* C1: under ECB and CBC, for every key of 16, 24 or 32 bytes and every    *)
(* plaintext of any length, decrypting the ciphertext encrypt returned     *)
(* gives no error and the plaintext back, on the instance that encrypted   *)
(* and on a second instance built from the same key, mode and IV.          *)
C1_RoundTrip ==
  (call.op = "decrypt" /\ call.intact) =>
    (call.error = "none" /\ call.output = call.plain)

(* A 17-byte plaintext recovered under CBC with a 32-byte key by the       *)
(* second instance.                                                        *)
C1_Witness ==
  /\ call.op = "decrypt" /\ call.intact /\ call.on = 2
  /\ inst[2].mode = CBC /\ Len(args.key) = 32
  /\ Len(call.plain) = 17 /\ call.output = call.plain

(* C2: with a key whose length is not 16, 24 or 32, and a mode and IV that *)
(* pass the constructor's IV check, every construction fails with the      *)
(* key-length error: no instance exists and no key schedule was derived.   *)
C2_KeyLengthError ==
  (Len(args.key) \notin {16, 24, 32} /\ (args.mode = ECB \/ ValidIV(args.iv))) =>
    /\ \A i \in 1..2 : ~inst[i].live /\ inst[i].key = << >>
    /\ ctor.on # 0 => ctor.error = "KeyLength"

(* A 17-byte key refused under CBC with a good IV. *)
C2_Witness ==
  /\ ctor.on # 0 /\ ctor.error = "KeyLength"
  /\ Len(args.key) = 17 /\ args.mode = CBC /\ ValidIV(args.iv)

(* C3: under a mode other than ECB a missing IV or one whose length is not *)
(* 16 makes every construction fail with a configuration error, so every   *)
(* instance of such a mode holds a 16-byte IV; under ECB construction      *)
(* needs no IV, and what encrypt and decrypt return does not depend on the *)
(* IV given.                                                               *)
C3_IvValidated ==
  /\ (args.mode # ECB /\ ~ValidIV(args.iv)) =>
       /\ \A i \in 1..2 : ~inst[i].live
       /\ ctor.on # 0 => ctor.error \in {"IvNotSet", "IvLength"}
  /\ \A i \in 1..2 : (inst[i].live /\ inst[i].mode # ECB) => ValidIV(inst[i].iv)
  /\ (args.mode = ECB /\ Len(args.key) \in {16, 24, 32} /\ ctor.on # 0) =>
       ctor.error = "none"
  /\ (call.op = "encrypt" /\ inst[call.on].mode = ECB) =>
       call.output = encrypt([inst[call.on] EXCEPT !.iv = NoIV], call.input).output
  /\ (call.op = "decrypt" /\ inst[call.on].mode = ECB) =>
       LET r == decrypt([inst[call.on] EXCEPT !.iv = NoIV], call.input)
       IN  call.output = r.output /\ call.error = r.error

(* A 15-byte IV refused under CBC although the key is good. *)
C3_Witness ==
  /\ ctor.on # 0 /\ ctor.error = "IvLength"
  /\ args.mode = CBC /\ Len(args.key) = 16 /\ Len(args.iv.bytes) = 15

(* C4: decrypt of a buffer whose length is not a multiple of 16 fails with *)
(* the input-length error before any block is decrypted, and returns       *)
(* nothing.                                                                *)
C4_InputLengthError ==
  (call.op = "decrypt" /\ Len(call.input) % 16 # 0) =>
    (call.error = "InputLength" /\ call.blocks = 0 /\ call.output = << >>)

(* A 17-byte buffer refused under CBC. *)
C4_Witness ==
  /\ call.op = "decrypt" /\ Len(call.input) = 17 /\ call.error = "InputLength"
  /\ inst[call.on].mode = CBC

(* C5: under CFB and OFB, with a valid key and a 16-byte IV, the output of *)
(* encrypt and of decrypt is exactly as long as the input, and a fresh     *)
(* instance with the same key and IV decrypts what a fresh instance        *)
(* encrypted to the plaintext, whatever its length.                        *)
C5_FeedbackRoundTrip ==
  /\ call.op \in {"encrypt", "decrypt"} => Len(call.output) = Len(call.input)
  /\ (call.op = "decrypt" /\ call.intact /\ call.fresh) => call.output = call.plain

(* A 17-byte plaintext recovered under CFB by the second instance. *)
C5_Witness ==
  /\ call.op = "decrypt" /\ call.intact /\ call.fresh /\ call.on = 2
  /\ fb[2].mode = "CFB" /\ Len(call.plain) = 17 /\ call.output = call.plain

(* The plaintext blocks encrypt works on, each with its ciphertext block.  *)
EcbSlots(c) ==
  IF c.op = "encrypt"
    THEN {[p |-> Blocks(pad(c.input, BlockSize))[k], c |-> Blocks(c.output)[k]] :
            k \in 1..(Len(c.output) \div 16)}
    ELSE {}

(* C6: under ECB with one key, a ciphertext block is encryptBlock of its   *)
(* plaintext block and of nothing else: equal plaintext blocks, at any two *)
(* positions of one message or of two messages, have equal ciphertext      *)
(* blocks.                                                                 *)
C6_EcbBlockIndependence ==
  (inst[1].live /\ inst[1].mode = ECB) =>
    /\ \A s, t \in EcbSlots(call) \cup EcbSlots(prev) : s.p = t.p => s.c = t.c
    /\ \A s \in EcbSlots(call) : s.c = encryptBlock(inst[1].key, s.p)

(* Two messages of different lengths that share a block, the later one     *)
(* holding it twice.                                                       *)
C6_Witness ==
  /\ inst[1].live /\ inst[1].mode = ECB
  /\ call.op = "encrypt" /\ prev.op = "encrypt"
  /\ Len(call.input) = 32 /\ Len(prev.input) = 16
  /\ Blocks(call.output)[1] = Blocks(call.output)[2]
  /\ Blocks(call.output)[1] = Blocks(prev.output)[1]

(* The plaintext blocks CBC works on, each with the ciphertext block       *)
(* before it (the IV for the first) and its own ciphertext block.          *)
CbcSlots(c) ==
  IF c.op = "encrypt"
    THEN {[p |-> Blocks(pad(c.input, BlockSize))[k],
           pre |-> IF k = 1 THEN inst[1].iv.bytes ELSE Blocks(c.output)[k - 1],
           c |-> Blocks(c.output)[k]] : k \in 1..(Len(c.output) \div 16)}
    ELSE {}

(* C7: under CBC with one key, ciphertext block i is encryptBlock of       *)
(* plaintext block i XOR ciphertext block i - 1 (the IV for the first),    *)
(* and equal plaintext blocks whose preceding ciphertext blocks differ     *)
(* have different ciphertext blocks.                                       *)
C7_CbcChainDependency ==
  (inst[1].live /\ inst[1].mode = CBC) =>
    /\ \A s, t \in CbcSlots(call) \cup CbcSlots(prev) :
         (s.p = t.p /\ s.pre # t.pre) => s.c # t.c
    /\ \A s \in CbcSlots(call) : s.c = encryptBlock(inst[1].key, xorBlock(s.p, s.pre))

(* One message holding the same block at two positions. *)
C7_Witness ==
  /\ inst[1].live /\ inst[1].mode = CBC /\ call.op = "encrypt"
  /\ \E s, t \in CbcSlots(call) : s.p = t.p /\ s.pre # t.pre /\ s.c # t.c

Processed(c) == IF c.op = "encrypt" THEN c.output ELSE c.input

GFDouble(x) == IF x >= 128 THEN Xor((2 * x) % 256, 27) ELSE (2 * x) % 256

GFMul3(x) == Xor(GFDouble(x), x)

GFMul9(x) == Xor(GFDouble(GFDouble(GFDouble(x))), x)

GFMul11(x) == Xor(GFMul9(x), GFDouble(x))

GFMul13(x) == Xor(GFMul9(x), GFDouble(GFDouble(x)))

GFMul14(x) == Xor(Xor(GFDouble(GFDouble(GFDouble(x))), GFDouble(GFDouble(x))), GFDouble(x))

(* The circulant products {02,03,01,01} and {0e,0b,0d,09} on one column. *)
GFMix(col) ==
  [k \in 1..4 |->
     Xor(Xor(GFDouble(col[k]), GFMul3(col[(k % 4) + 1])),
         Xor(col[((k + 1) % 4) + 1], col[((k + 2) % 4) + 1]))]

GFInvMix(col) ==
  [k \in 1..4 |->
     Xor(Xor(GFMul14(col[k]), GFMul11(col[(k % 4) + 1])),
         Xor(GFMul13(col[((k + 1) % 4) + 1]), GFMul9(col[((k + 2) % 4) + 1])))]

(* C10, as claimed: every xtime call on a byte returns a byte, the doubled *)
(* value reduced to eight bits, XORed with 0x1b when the high bit was set; *)
(* and so does every call made by mixColumns and invMixColumns.            *)
C10_XtimeReturnsByte ==
  \A k \in 1..Len(gf.xtimes) :
    /\ gf.xtimes[k].ret \in 0..255
    /\ gf.xtimes[k].arg \in 0..255 => gf.xtimes[k].ret = GFDouble(gf.xtimes[k].arg)

(* C10, amended: xtime does not reduce its result to a byte.  On a byte x  *)
(* it returns 2x when the high bit is clear and (2x) XOR 0x1b, a value in  *)
(* 256..511, when it is set; the transforms pass it values of up to ten    *)
(* bits (nested doublings) and get up to eleven back; in every call the    *)
(* low eight bits of the result are the GF(2^8) double of the low eight    *)
(* bits of the argument, and the bytes mixColumns and invMixColumns store  *)
(* are the field's matrix products.                                        *)
C10_XtimeLowByte ==
  /\ \A k \in 1..Len(gf.xtimes) :
       LET x == gf.xtimes[k].arg
           r == gf.xtimes[k].ret
       IN  /\ x \in 0..1023
           /\ r \in 0..2047
           /\ r % 256 = GFDouble(x % 256)
           /\ x \in 0..127 => r = 2 * x
           /\ x \in 128..255 => r = Xor(2 * x, 27) /\ r \in 256..511
  /\ gf.op = "mixColumns" =>
       /\ \A k \in 1..4 : gf.output[k] \in 0..255
       /\ gf.output = GFMix(gf.input)
  /\ gf.op = "invMixColumns" =>
       /\ \A k \in 1..4 : gf.output[k] \in 0..255
       /\ gf.output = GFInvMix(gf.input)

(* A nested doubling of invMixColumns whose argument and result both       *)
(* exceed a byte.                                                          *)
C10_Witness ==
  /\ gf.op = "invMixColumns"
  /\ \E k \in 1..Len(gf.xtimes) : gf.xtimes[k].arg > 255 /\ gf.xtimes[k].ret > 511

====
